---- MODULE Spec2Model ----
(***************************************************************************)
(* The package initializer of AQSTN (src/aqstn__init__.py) as a state      *)
(* machine: the interpreter executes the module body statement by          *)
(* statement against the package namespace.  The body is a docstring       *)
(* (lines 1-4, which the compiler stores under __doc__) followed by two    *)
(* assignments of string literals (lines 5 and 6).  The namespace the body *)
(* starts from is either the one the import system has just created or,    *)
(* on a reload, whatever the namespace held before.                        *)
(***************************************************************************)
EXTENDS Naturals, Sequences, FiniteSets

VARIABLES
    pc,         \* the statement the interpreter executes next, "imported" or "error"
    ns,         \* the package namespace: name -> value
    outside,    \* state that lives outside the package namespace
    ns0,        \* history: the namespace when the current execution began
    outside0,   \* history: the outside state when the current execution began
    bound,      \* history: the names stored by the current execution, in order
    results,    \* history: (__doc__, __version__, __author__) at the end of every finished execution
    reloads     \* how often the initializer has been executed again

vars == <<pc, ns, outside, ns0, outside0, bound, results, reloads>>

\* How many times the finished initializer is executed again (importlib.reload).
MaxReloads == 2

----------------------------------------------------------------------------
\* Values of the Python object model, as far as the initializer meets them.

Str(chars) == [tag |-> "str", chars |-> chars]
NoneVal == [tag |-> "None", chars |-> <<>>]
Unbound == [tag |-> "unbound", chars |-> <<>>]

NL == "\n"

\* Line 2 of the source, the first line of text inside the docstring.
DocLine2 ==
    << "A", "u", "t", "o", "n", "o", "m", "o", "u", "s", " ", "Q", "u", "a",
       "n", "t", "u", "m", "-", "S", "w", "a", "r", "m", " ", "T", "r", "a",
       "d", "i", "n", "g", " ", "N", "e", "t", "w", "o", "r", "k", " ", "(",
       "A", "Q", "S", "T", "N", ")" >>

\* Line 3 of the source, the second line of text inside the docstring.
DocLine3 ==
    << "P", "r", "o", "d", "u", "c", "t", "i", "o", "n", "-", "r", "e", "a",
       "d", "y", " ", "t", "r", "a", "d", "i", "n", "g", " ", "s", "y", "s",
       "t", "e", "m", " ", "i", "n", "t", "e", "g", "r", "a", "t", "i", "n",
       "g", " ", "q", "u", "a", "n", "t", "u", "m", " ", "c", "o", "m", "p",
       "u", "t", "i", "n", "g", ",", " ", "n", "e", "u", "r", "a", "l", " ",
       "n", "e", "t", "w", "o", "r", "k", "s", ",", " ", "a", "n", "d", " ",
       "s", "w", "a", "r", "m", " ", "i", "n", "t", "e", "l", "l", "i", "g",
       "e", "n", "c", "e", "." >>

\* The value of the triple-quoted literal of lines 1-4: the opening quotes are
\* followed by a line break, and so is each of the two lines of text.
DocLiteral == <<NL>> \o DocLine2 \o <<NL>> \o DocLine3 \o <<NL>>

VersionLiteral == <<"1", ".", "0", ".", "0">>

AuthorLiteral ==
    << "E", "v", "o", "l", "u", "t", "i", "o", "n", " ",
       "E", "c", "o", "s", "y", "s", "t", "e", "m" >>

----------------------------------------------------------------------------
\* The module body: one record per statement.

Const(v) == [kind |-> "const", value |-> v, name |-> ""]
Name(n) == [kind |-> "name", value |-> Unbound, name |-> n]
Global(n) == [space |-> "module", name |-> n]
\* A target that is not a name of the namespace (an attribute of another
\* object); the body has none.
External(n) == [space |-> "outside", name |-> n]

\* Slips in lines 1-4: the text on one line; the text without its "(AQSTN)".
OneLineDocstring == [target |-> Global("__doc__"), expr |-> Const(Str(DocLine2))]
UntaggedDocstring ==
    [target |-> Global("__doc__"),
     expr |-> Const(Str(<<NL>> \o SubSeq(DocLine2, 1, 40) \o <<NL>> \o DocLine3 \o <<NL>>))]
\* Lines 1-4: the docstring, stored under __doc__ when the body starts.
DocstringStmt == [target |-> Global("__doc__"), expr |-> Const(Str(DocLiteral))]

\* Slips in line 5: another version; another target; a name on the right.
WrongVersion ==
    [target |-> Global("__version__"), expr |-> Const(Str(<<"1", ".", "0", ".", "1">>))]
VersionWithoutUnderscores ==
    [target |-> Global("version"), expr |-> Const(Str(VersionLiteral))]
VersionFromAuthor == [target |-> Global("__version__"), expr |-> Name("__author__")]
\* Line 5: __version__ = "1.0.0"
VersionStmt == [target |-> Global("__version__"), expr |-> Const(Str(VersionLiteral))]

\* Slips in line 6: another spelling; the quotes left out.
AuthorLowerCase ==
    [target |-> Global("__author__"),
     expr |-> Const(Str(<<"e">> \o SubSeq(AuthorLiteral, 2, Len(AuthorLiteral))))]
AuthorUnquoted == [target |-> Global("__author__"), expr |-> Name("Evolution")]
\* Line 6: __author__ = "Evolution Ecosystem"
AuthorStmt == [target |-> Global("__author__"), expr |-> Const(Str(AuthorLiteral))]

Program == <<DocstringStmt, VersionStmt, AuthorStmt>>

----------------------------------------------------------------------------
\* The interpreter.

\* The names the namespace is observed at: the three the body is about, and
\* two it does not mention.
Names == {"__doc__", "__version__", "__author__", "__all__", "version"}
OutsideNames == {"os.environ", "builtins.__doc__"}

\* What a name may hold before the body runs.
PriorValues == {Unbound, NoneVal, Str(<<"0", ".", "9">>)}
OutsideValues == {NoneVal, Str(<<"x">>)}

\* The namespace of a module object the import system has just created.
FreshNamespace == [n \in Names |-> IF n = "__doc__" THEN NoneVal ELSE Unbound]

\* A constant evaluates to itself; a name is looked up in the namespace, and
\* the lookup of an unbound name raises NameError (the result Unbound).
Eval(expr, space) ==
    IF expr.kind = "const" THEN expr.value
    ELSE IF expr.name \in DOMAIN space THEN space[expr.name]
    ELSE Unbound

\* One statement on the state st = [ns, outside, raised].
ExecStmt(stmt, st) ==
    LET v == Eval(stmt.expr, st.ns) IN
    IF st.raised THEN st
    ELSE IF v = Unbound THEN [st EXCEPT !.raised = TRUE]
    ELSE IF stmt.target.space = "module"
         THEN [st EXCEPT !.ns = [n \in DOMAIN st.ns |->
                                    IF n = stmt.target.name THEN v ELSE st.ns[n]]]
         ELSE [st EXCEPT !.outside = [n \in DOMAIN st.outside |->
                                    IF n = stmt.target.name THEN v ELSE st.outside[n]]]

\* The whole body, statement after statement.
RECURSIVE ExecFrom(_, _)
ExecFrom(i, st) ==
    IF i > Len(Program) THEN st ELSE ExecFrom(i + 1, ExecStmt(Program[i], st))

ExecModule(space, out) == ExecFrom(1, [ns |-> space, outside |-> out, raised |-> FALSE])

\* What a client reads off the package after import.
Result(space) == <<space["__doc__"], space["__version__"], space["__author__"]>>

----------------------------------------------------------------------------
\* Text operations a client applies to the attributes.

\* str.splitlines: the lines of a text, line breaks removed.  A line starts
\* at the first character and after every line break, as long as there is a
\* character there: a final line break opens no further line.
LineStarts(s) ==
    {p \in 1..Len(s) : p = 1 \/ s[p - 1] = NL}

\* The line that starts at p runs up to the next line break or the end.
LineAt(s, p) ==
    LET breaks == {i \in p..Len(s) : s[i] = NL}
        stop == IF breaks = {} THEN Len(s) + 1
                ELSE CHOOSE i \in breaks : \A j \in breaks : i <= j
    IN  SubSeq(s, p, stop - 1)

splitlines(s) ==
    LET starts == LineStarts(s) IN
    [k \in 1..Cardinality(starts) |->
        LineAt(s, CHOOSE p \in starts : Cardinality({q \in starts : q <= p}) = k)]

\* sub in s
Contains(s, sub) ==
    \E i \in 1..(Len(s) + 1) :
        /\ i + Len(sub) - 1 <= Len(s)
        /\ SubSeq(s, i, i + Len(sub) - 1) = sub

----------------------------------------------------------------------------
\* The state machine.

Init ==
    /\ pc = "docstring"
    /\ ns \in [Names -> PriorValues]
    /\ outside \in [OutsideNames -> OutsideValues]
    /\ ns0 = ns
    /\ outside0 = outside
    /\ bound = <<>>
    /\ results = {}
    /\ reloads = 0

\* The interpreter executes stmt and moves on to next, or stops on an exception.
Step(stmt, next) ==
    LET r == ExecStmt(stmt, [ns |-> ns, outside |-> outside, raised |-> FALSE]) IN
    /\ ns' = r.ns
    /\ outside' = r.outside
    /\ pc' = IF r.raised THEN "error" ELSE next
    /\ bound' = IF r.raised THEN bound ELSE Append(bound, stmt.target.name)
    /\ results' = IF ~r.raised /\ next = "imported"
                  THEN results \cup {Result(r.ns)} ELSE results
    /\ UNCHANGED <<ns0, outside0, reloads>>

ExecDocstring ==
    /\ pc = "docstring"
    /\ Step(Program[1], "version")

AssignVersion ==
    /\ pc = "version"
    /\ Step(Program[2], "author")

AssignAuthor ==
    /\ pc = "author"
    /\ Step(Program[3], "imported")

\* The body is executed again in the namespace it has already filled.
Reload ==
    /\ pc = "imported"
    /\ reloads < MaxReloads
    /\ pc' = "docstring"
    /\ ns0' = ns
    /\ outside0' = outside
    /\ bound' = <<>>
    /\ reloads' = reloads + 1
    /\ UNCHANGED <<ns, outside, results>>

Next == ExecDocstring \/ AssignVersion \/ AssignAuthor \/ Reload

Spec == Init /\ [][Next]_vars

\* The interpreter runs the body to its end without waiting for anything.
FairSpec ==
    /\ Spec
    /\ WF_vars(ExecDocstring)
    /\ WF_vars(AssignVersion)
    /\ WF_vars(AssignAuthor)

----------------------------------------------------------------------------
\* Properties.

Imported == pc = "imported"
BodyNames == {"__doc__", "__version__", "__author__"}
IsStr(v) == v.tag = "str"

\* C1: whenever the initializer has finished, __version__ is bound to the
\* string "1.0.0".
VersionIsOneZeroZero ==
    Imported => ns["__version__"] = Str(<<"1", ".", "0", ".", "0">>)

\* An import has finished over a namespace that held another __version__.
VersionRebound ==
    /\ Imported
    /\ ns0["__version__"] = Str(<<"0", ".", "9">>)
    /\ ns["__version__"] = Str(<<"1", ".", "0", ".", "0">>)

\* C2: whenever the initializer has finished, __author__ is bound to the
\* string "Evolution Ecosystem".
AuthorIsEvolutionEcosystem ==
    Imported =>
        ns["__author__"] =
            Str(<< "E", "v", "o", "l", "u", "t", "i", "o", "n", " ",
                   "E", "c", "o", "s", "y", "s", "t", "e", "m" >>)

\* A first import has finished over a namespace with no __author__ in it.
AuthorBound ==
    /\ Imported
    /\ reloads = 0
    /\ ns0["__author__"] = Unbound
    /\ IsStr(ns["__author__"])
    /\ Len(ns["__author__"].chars) = 19

\* C3: the import never stops on an exception, every execution that starts
\* reaches "imported", and it gets there by the docstring and the two
\* assignments, in that order.
ImportCompletes ==
    /\ [](pc # "error")
    /\ [](Imported => bound = <<"__doc__", "__version__", "__author__">>)
    /\ (pc = "docstring") ~> Imported

\* The import of a freshly created package has gone through its three statements.
FreshImportDone ==
    /\ Imported
    /\ reloads = 0
    /\ ns0 = FreshNamespace
    /\ Len(bound) = Len(Program)

\* C4: after import, the docstring is a non-empty string that contains "AQSTN".
DocMentionsAQSTN ==
    Imported =>
        /\ IsStr(ns["__doc__"])
        /\ Len(ns["__doc__"].chars) > 0
        /\ Contains(ns["__doc__"].chars, <<"A", "Q", "S", "T", "N">>)

\* An import has finished over a namespace whose __doc__ was None.
DocReplacedNone ==
    /\ Imported
    /\ ns0["__doc__"] = NoneVal
    /\ IsStr(ns["__doc__"])

\* C5: an execution of the initializer stores __doc__, __version__ and
\* __author__, each a string, and nothing else: every other name of the
\* namespace and all state outside it stay as they were when it began.
OnlyBodyNamesBound ==
    /\ \A n \in Names \ BodyNames : ns[n] = ns0[n]
    /\ outside = outside0
    /\ \A i \in 1..Len(bound) : bound[i] \in BodyNames
    /\ Imported =>
        /\ {bound[i] : i \in 1..Len(bound)} = BodyNames
        /\ Len(bound) = Cardinality(BodyNames)
        /\ \A n \in BodyNames : IsStr(ns[n])

\* An import has rebound all three names and left bound and unbound
\* bystanders, inside and outside the namespace, alone.
BystandersKept ==
    /\ Imported
    /\ \A n \in BodyNames : ns[n] # ns0[n]
    /\ ns["__all__"] = Str(<<"0", ".", "9">>)
    /\ ns["version"] = Unbound
    /\ outside["os.environ"] = Str(<<"x">>)

SameResultEveryTime ==
    /\ \A r \in results : r = Result(ExecModule(FreshNamespace, outside).ns)
    /\ Imported => Result(ns) \in results
    /\ \A i \in 1..Len(Program) : Program[i].expr.kind = "const"

\* The body has run to its end again over the namespace it had already
\* filled, after a first run over a namespace with other contents, and every
\* run ended alike.
ReloadedWithSameResult ==
    /\ Imported
    /\ reloads = MaxReloads
    /\ Result(ns0) = Result(ns)
    /\ Cardinality(results) = 1

====
